---- MODULE Spec2Model ----
(***************************************************************************)
(* Model of the AudioEngine facade (AudioEngine.cpp as listed in README.md, *)
(* lines 35-284, with the class declaration of unnamed/part_001).  The     *)
(* facade keeps string-keyed std::maps of FMOD handles; the FMOD backend   *)
(* is modelled as the handles it has given out plus the list of calls the  *)
(* last facade operation issued.                                           *)
(***************************************************************************)
EXTENDS Integers, Sequences, FiniteSets, TLC

(***************************************************************************)
(* Bounds of the model.                                                    *)
(***************************************************************************)
\* Backend sound resources createSound can hand out before it fails.
MaxSounds == 2
\* Backend channels playSound can hand out before it fails.
MaxChannels == 2
\* Backend event instances createInstance can hand out before it fails.
MaxInstances == 2

\* Sound ids (SoundInfo::uniqueID, the file path) and event names.
Ids == {1, 2}
EventNames == {1, 2}

\* The caller's SoundInfo objects.
Descs == {1, 2, 3}

(***************************************************************************)
(* Program constants.                                                      *)
(***************************************************************************)
\* 1.0f, in the model's volume unit of one half.
FullVolume == 2
\* "64 samples is default volume fade out"
FadeThreshold == 64
\* A null pointer.
NullH == 0
\* What the backend keeps of a sound or an event instance it has released.
Released == 0
\* The indeterminate value of a pointer that was declared and never assigned
\* (FMOD::Sound* sound; FMOD::Channel* channel;): whatever bits it holds, it is
\* not a handle the backend gave out for it.
GarbageH == -1

\* Volumes a caller passes: 0.0 and 0.5.
Volumes == {0, 1}
\* The volume the caller constructed its SoundInfo objects with: 0.5.
InitVolume == 1
\* Fade lengths in samples a caller passes (0 is the parameter's default).
Fades == {0, 64, 65, 128}
\* Values the backend's DSP clock reports (far below 2^64: the unsigned long
\* long sum parentclock + fadeSampleLength does not wrap on them).
Clocks == {0, 7}

\* What an unassigned local pointer holds after a failed backend call.
Uninit == {GarbageH}

(***************************************************************************)
(* The caller's SoundInfo objects: id, loop and 3D policy are fixed at     *)
(* construction.                                                           *)
(***************************************************************************)
getUniqueID(d) == ((d - 1) % 2) + 1
isLoop(d) == d <= 2
is3D(d) == d \in {2, 3}

VARIABLES
    info,               \* per SoundInfo object: [loaded, volume]
    sounds,             \* std::map<std::string, FMOD::Sound*>
    loopsPlaying,       \* std::map<std::string, FMOD::Channel*>
    eventDescriptions,  \* std::map<std::string, EventDescription*>
    eventInstances,     \* std::map<std::string, EventInstance*>
    bSounds,            \* backend: the SoundInfo each sound resource was created from, by handle
    bChannels,          \* backend: each channel handed out, by handle
    bInstances,         \* backend: the event of each instance created, by handle
    soundBanks,         \* std::map<std::string, FMOD::Studio::Bank*>
    soundCache,         \* file-path API: std::map<std::string, FMOD::Sound*>
    channelMap,         \* file-path API: std::map<std::string, FMOD::Channel*>
    muted,              \* bool muted
    listener,           \* FMOD_VECTOR listenerpos, forward, up
    bMute,              \* backend: the mute state of the master channel group
    bLive,              \* backend: the systems init created are not released
    returned,           \* what the last non-void operation returned
    calls,              \* backend calls issued by the last operation
    lastOp,             \* the last operation and its arguments
    pre                 \* the facade's maps as they were before the last operation

vars == <<info, sounds, loopsPlaying, eventDescriptions, eventInstances,
          bSounds, bChannels, bInstances, soundBanks, muted, listener, bMute, bLive,
          soundCache, channelMap, returned, calls, lastOp, pre>>

(***************************************************************************)
(* std::map operations.                                                    *)
(***************************************************************************)
\* m.count(k)
MapCount(m, k) == IF k \in DOMAIN m THEN 1 ELSE 0

\* m.insert({k, v}): keeps the element already stored under k.
MapInsert(m, k, v) ==
    IF k \in DOMAIN m THEN m
    ELSE [x \in DOMAIN m \cup {k} |-> IF x = k THEN v ELSE m[x]]

\* m[k] as an expression: value-initializes (null) a missing element.
MapIndex(m, k) == MapInsert(m, k, NullH)

\* m.erase(k)
MapErase(m, k) == [x \in DOMAIN m \ {k} |-> m[x]]

EmptyMap == [x \in {} |-> NullH]

(***************************************************************************)
(* Backend calls.                                                          *)
(***************************************************************************)
Call(fn, h, a, b) == [fn |-> fn, h |-> h, a |-> a, b |-> b]

CallsNamed(fn) == {i \in 1..Len(calls) : calls[i].fn = fn}

ValidSound(h) == h \in 1..Len(bSounds) /\ bSounds[h] # Released
\* The file a backend sound was created from and the loop mode setMode gave it.
SoundPath(h) == getUniqueID(bSounds[h])
SoundLoops(h) == isLoop(bSounds[h])
ValidChannel(h) == h \in 1..Len(bChannels)
ValidInstance(h) == h \in 1..Len(bInstances) /\ bInstances[h] # Released

Op(name, d, x, y) == [op |-> name, d |-> d, x |-> x, y |-> y]

Snapshot == [sounds |-> sounds, loopsPlaying |-> loopsPlaying,
             eventDescriptions |-> eventDescriptions,
             eventInstances |-> eventInstances, info |-> info,
             soundBanks |-> soundBanks, listener |-> listener, muted |-> muted]

(***************************************************************************)
(* Parameter passing of a SoundInfo: what the caller's objects are after   *)
(* the callee changed its parameter d to rec.                              *)
(***************************************************************************)
\* void f(SoundInfo soundInfo): the callee works on a copy.
PassByValue(d, rec) == info

\* Mutant: the reference parameter declared without its &.
PassByReference_copy(d, rec) == info

\* void f(SoundInfo& soundInfo): the callee works on the caller's object.
PassByReference(d, rec) == [info EXCEPT ![d] = rec]

InitInfo == [d \in Descs |-> [loaded |-> FALSE, volume |-> InitVolume]]

\* The listener vectors' default member initializers (DISTANCEFACTOR is 1.0f).
InitListener == [listenerpos |-> <<0, 0, -1>>,
                 forward |-> <<0, 0, 1>>,
                 up |-> <<0, 1, 0>>]

\* The engine as its user starts with it: constructed, and init() called once
\* ("AudioEngine::init() must be called before using the Audio Engine").
Init ==
    /\ info = InitInfo
    /\ sounds = EmptyMap
    /\ loopsPlaying = EmptyMap
    /\ eventDescriptions = EmptyMap
    /\ eventInstances = EmptyMap
    /\ bSounds = <<>>
    /\ bChannels = <<>>
    /\ bInstances = <<>>
    /\ soundBanks = EmptyMap
    /\ soundCache = EmptyMap
    /\ channelMap = EmptyMap
    /\ muted = FALSE
    /\ listener = InitListener
    /\ bMute = FALSE
    /\ bLive = TRUE
    /\ returned = 0
    /\ calls = <<>>
    /\ lastOp = Op("AudioEngine", 0, 0, 0)
    /\ pre = [sounds |-> EmptyMap, loopsPlaying |-> EmptyMap,
              eventDescriptions |-> EmptyMap, eventInstances |-> EmptyMap,
              info |-> InitInfo, soundBanks |-> EmptyMap,
              listener |-> InitListener, muted |-> FALSE]

Bit(b) == IF b THEN 1 ELSE 0

\* Bookkeeping of a facade operation: what it was, the backend calls it issued
\* and the facade's maps before it.
Record(op, issued) ==
    /\ lastOp' = op
    /\ calls' = issued
    /\ pre' = Snapshot

soundVars == <<info, sounds, loopsPlaying, bSounds, bChannels>>
eventVars == <<eventDescriptions, eventInstances, bInstances>>
engineVars == <<soundBanks, muted, listener, bMute, bLive, returned>>
fileVars == <<soundCache, channelMap>>

(***************************************************************************)
(* void AudioEngine::loadSound(SoundInfo soundInfo)                        *)
(***************************************************************************)
\* The guard of loadSound's loading branch.
loadSoundGuard(d) == ~info[d].loaded

loadSound(d) ==
    /\ IF loadSoundGuard(d)
       THEN \E ok \in BOOLEAN, u \in Uninit :
              LET id == getUniqueID(d)
                  created == ok /\ bLive /\ Len(bSounds) < MaxSounds
                  sound == IF created THEN Len(bSounds) + 1 ELSE u
                  inserted == MapInsert(sounds, id, sound)
              IN  /\ bSounds' = IF created THEN Append(bSounds, d) ELSE bSounds
                  /\ sounds' = inserted
                  /\ info' = PassByValue(d, [info[d] EXCEPT !.loaded = TRUE])
                  /\ Record(Op("loadSound", d, 0, 0),
                            << Call("createSound", sound, id, Bit(is3D(d))),
                               Call("setMode", sound, Bit(isLoop(d)), 0),
                               Call("set3DMinMaxDistance", sound, 0, 0),
                               Call("getLength", inserted[id], 0, 0) >>)
       ELSE /\ Record(Op("loadSound", d, 0, 0), <<>>)
            /\ UNCHANGED <<sounds, bSounds, info>>
    /\ UNCHANGED <<loopsPlaying, bChannels>>
    /\ UNCHANGED eventVars
    /\ UNCHANGED engineVars
    /\ UNCHANGED fileVars

(***************************************************************************)
(* bool AudioEngine::soundIsPlaying(SoundInfo soundInfo)                   *)
(***************************************************************************)
\* Mutants: the loop flag alone; the map alone; either of them.
soundIsPlaying_either(d) == isLoop(d) \/ MapCount(loopsPlaying, getUniqueID(d)) > 0
soundIsPlaying_flagOnly(d) == isLoop(d)
soundIsPlaying_countOnly(d) == MapCount(loopsPlaying, getUniqueID(d)) > 0

soundIsPlaying(d) == isLoop(d) /\ MapCount(loopsPlaying, getUniqueID(d)) > 0

\* A call of soundIsPlaying by the engine's user.
callSoundIsPlaying(d) ==
    /\ returned' = Bit(soundIsPlaying(d))
    /\ Record(Op("soundIsPlaying", d, 0, 0), <<>>)
    /\ UNCHANGED soundVars
    /\ UNCHANGED eventVars
    /\ UNCHANGED <<soundBanks, muted, listener, bMute, bLive>>
    /\ UNCHANGED fileVars

(***************************************************************************)
(* void AudioEngine::playSound(SoundInfo soundInfo)                        *)
(***************************************************************************)
\* The guard of playSound's playing branch.
playSoundGuard(d) == ~info[d].loaded

\* Mutants: the channel is never recorded; every channel is recorded.
playSoundRecord_never(d, channel) == loopsPlaying
playSoundRecord_always(d, channel) == MapInsert(loopsPlaying, getUniqueID(d), channel)

\* What playSound does to loopsPlaying once it holds the channel.
playSoundRecord(d, channel) ==
    IF isLoop(d) THEN MapInsert(loopsPlaying, getUniqueID(d), channel)
    ELSE loopsPlaying

\* The configuration calls between the paused start and the un-pause.
playSoundConfigure(d, channel) ==
    (IF is3D(d) THEN << Call("set3DAttributes", channel, 0, 0) >> ELSE <<>>)
    \o << Call("setVolume", channel, info[d].volume, 0),
          Call("setReverbProperties", channel, 0, 0) >>

\* Mutant: the channel is un-paused as soon as it is started.
playSoundCalls_unpauseFirst(d, channel, sound) ==
    << Call("playSound", channel, sound, 1), Call("setPaused", channel, 0, 0) >>
    \o playSoundConfigure(d, channel)

\* The backend calls of playSound's playing branch, in order: playSound with
\* paused = true, the configuration, setPaused(false).
playSoundCalls(d, channel, sound) ==
    << Call("playSound", channel, sound, 1) >>
    \o playSoundConfigure(d, channel)
    \o << Call("setPaused", channel, 0, 0) >>

playSound(d) ==
    /\ IF playSoundGuard(d)
       THEN \E ok \in BOOLEAN, u \in Uninit :
              LET id == getUniqueID(d)
                  indexed == MapIndex(sounds, id)
                  sound == indexed[id]
                  started == ok /\ bLive /\ ValidSound(sound) /\ Len(bChannels) < MaxChannels
                  channel == IF started THEN Len(bChannels) + 1 ELSE u
              IN  /\ sounds' = indexed
                  /\ bChannels' = IF started
                                  THEN Append(bChannels, [snd |-> sound, stopped |-> FALSE])
                                  ELSE bChannels
                  /\ loopsPlaying' = playSoundRecord(d, channel)
                  /\ Record(Op("playSound", d, 0, 0), playSoundCalls(d, channel, sound))
       ELSE /\ Record(Op("playSound", d, 0, 0), <<>>)
            /\ UNCHANGED <<sounds, bChannels, loopsPlaying>>
    /\ UNCHANGED <<info, bSounds>>
    /\ UNCHANGED eventVars
    /\ UNCHANGED engineVars
    /\ UNCHANGED fileVars

(***************************************************************************)
(* void AudioEngine::stopSound(SoundInfo soundInfo)                        *)
(***************************************************************************)
\* Channel::stop on the backend.
BackendStop(channel) ==
    IF ValidChannel(channel)
    THEN [bChannels EXCEPT ![channel].stopped = TRUE]
    ELSE bChannels

\* Mutant: every entry is removed.
stopSoundErase_all(d) == EmptyMap

\* What stopSound does to loopsPlaying after stopping the channel.
stopSoundErase(d) == MapErase(loopsPlaying, getUniqueID(d))

stopSound(d) ==
    /\ IF soundIsPlaying(d)
       THEN LET channel == MapIndex(loopsPlaying, getUniqueID(d))[getUniqueID(d)]
            IN  /\ Record(Op("stopSound", d, 0, 0), << Call("stop", channel, 0, 0) >>)
                /\ bChannels' = BackendStop(channel)
                /\ loopsPlaying' = stopSoundErase(d)
       ELSE /\ Record(Op("stopSound", d, 0, 0), <<>>)
            /\ UNCHANGED <<bChannels, loopsPlaying>>
    /\ UNCHANGED <<info, sounds, bSounds>>
    /\ UNCHANGED eventVars
    /\ UNCHANGED engineVars
    /\ UNCHANGED fileVars

(***************************************************************************)
(* void AudioEngine::updateSoundLoopVolume(SoundInfo& soundInfo,           *)
(*     float newVolume, unsigned int fadeSampleLength)                     *)
(***************************************************************************)
\* Mutant: the threshold itself ramps.
immediateVolume_below(fadeSampleLength) == fadeSampleLength < FadeThreshold

\* fadeSampleLength <= 64: the step change, no ramp.
immediateVolume(fadeSampleLength) == fadeSampleLength <= FadeThreshold

\* bool fadeUp = newVolume > soundInfo.getVolume();
fadeUp(d, newVolume) == newVolume > info[d].volume

\* Mutant: the ramp always ends at the new volume.
targetFadeVol_newVolume(d, newVolume) == newVolume

\* float targetFadeVol = fadeUp ? 1.0f : newVolume;
targetFadeVol(d, newVolume) == IF fadeUp(d, newVolume) THEN FullVolume ELSE newVolume

\* The calls of the ramp branch, parentclock being what getDSPClock left.
rampCalls(d, channel, newVolume, fadeSampleLength, parentclock) ==
    << Call("getDSPClock", channel, parentclock, 0) >>
    \o (IF fadeUp(d, newVolume) THEN << Call("setVolume", channel, newVolume, 0) >>
        ELSE <<>>)
    \o << Call("addFadePoint", channel, parentclock, info[d].volume),
          Call("addFadePoint", channel, parentclock + fadeSampleLength,
               targetFadeVol(d, newVolume)) >>

\* Whether the backend reads a clock for the channel; parentclock is
\* initialized to 0 and stays 0 when it does not.
ClockReadable(channel) == ValidChannel(channel) /\ ~bChannels[channel].stopped

updateSoundLoopVolume(d, newVolume, fadeSampleLength) ==
    /\ IF soundIsPlaying(d)
       THEN LET indexed == MapIndex(loopsPlaying, getUniqueID(d))
                channel == indexed[getUniqueID(d)]
                op == Op("updateSoundLoopVolume", d, newVolume, fadeSampleLength)
            IN  /\ loopsPlaying' = indexed
                /\ IF immediateVolume(fadeSampleLength)
                   THEN Record(op, << Call("setVolume", channel, newVolume, 0) >>)
                   ELSE \E t \in Clocks :
                          LET parentclock == IF ClockReadable(channel) THEN t ELSE 0
                          IN  Record(op, rampCalls(d, channel, newVolume,
                                                   fadeSampleLength, parentclock))
                /\ info' = PassByReference(d, [info[d] EXCEPT !.volume = newVolume])
       ELSE /\ Record(Op("updateSoundLoopVolume", d, newVolume, fadeSampleLength), <<>>)
            /\ UNCHANGED <<info, loopsPlaying>>
    /\ UNCHANGED <<sounds, bSounds, bChannels>>
    /\ UNCHANGED eventVars
    /\ UNCHANGED engineVars
    /\ UNCHANGED fileVars

(***************************************************************************)
(* void AudioEngine::update3DSoundPosition(SoundInfo soundInfo)            *)
(***************************************************************************)
update3DSoundPosition(d) ==
    /\ IF soundIsPlaying(d)
       THEN LET indexed == MapIndex(loopsPlaying, getUniqueID(d))
            IN  /\ loopsPlaying' = indexed
                /\ Record(Op("update3DSoundPosition", d, 0, 0),
                          << Call("set3DAttributes", indexed[getUniqueID(d)], 0, 0) >>)
       ELSE /\ Record(Op("update3DSoundPosition", d, 0, 0), <<>>)
            /\ UNCHANGED loopsPlaying
    /\ UNCHANGED <<info, sounds, bSounds, bChannels>>
    /\ UNCHANGED eventVars
    /\ UNCHANGED engineVars
    /\ UNCHANGED fileVars

(***************************************************************************)
(* void AudioEngine::update()                                              *)
(***************************************************************************)
\* Channels the backend can find ended: un-stopped ones whose sound does not
\* loop (setMode gave it FMOD_LOOP_OFF) and so reaches its end.
Endable ==
    {c \in 1..Len(bChannels) :
        /\ ~bChannels[c].stopped
        /\ ValidSound(bChannels[c].snd)
        /\ ~SoundLoops(bChannels[c].snd)}

\* studioSystem->update() on the backend: the channels in ended have played to
\* their end and their handles are invalid from now on.
BackendUpdate(ended) ==
    [c \in 1..Len(bChannels) |->
        IF c \in ended THEN [bChannels[c] EXCEPT !.stopped = TRUE] ELSE bChannels[c]]

\* Mutant: update forgets the loops.
updateLoops_clear == EmptyMap

\* What update does to loopsPlaying.
updateLoops == loopsPlaying

update ==
    /\ \E ended \in SUBSET Endable : bChannels' = BackendUpdate(ended)
    /\ loopsPlaying' = updateLoops
    /\ Record(Op("update", 0, 0, 0), << Call("update", 0, 0, 0) >>)
    /\ UNCHANGED <<info, sounds, bSounds>>
    /\ UNCHANGED eventVars
    /\ UNCHANGED engineVars
    /\ UNCHANGED fileVars

(***************************************************************************)
(* void AudioEngine::loadFMODStudioEvent(const char* eventName,            *)
(*     std::vector<std::pair<const char*, float>> paramsValues)            *)
(***************************************************************************)
loadFMODStudioEvent(name, nParams) ==
    /\ \E found \in BOOLEAN, ok \in BOOLEAN :
         LET \* the description handle of an event is its name; NULL when getEvent fails
             eventDescription == IF found /\ bLive THEN name ELSE NullH
             created == found /\ bLive /\ ok /\ Len(bInstances) < MaxInstances
             eventInstance == IF created THEN Len(bInstances) + 1 ELSE NullH
         IN  /\ bInstances' = IF created THEN Append(bInstances, name) ELSE bInstances
             /\ Record(Op("loadFMODStudioEvent", 0, name, nParams),
                       << Call("getEvent", eventDescription, name, 0),
                          Call("createInstance", eventInstance, eventDescription, 0) >>
                       \o [i \in 1..nParams |->
                              Call("setParameterByName", eventInstance, i, 0)])
             /\ eventInstances' = MapInsert(eventInstances, name, eventInstance)
             /\ eventDescriptions' = MapInsert(eventDescriptions, name, eventDescription)
    /\ UNCHANGED soundVars
    /\ UNCHANGED engineVars
    /\ UNCHANGED fileVars

(***************************************************************************)
(* void AudioEngine::playEvent(const char* eventName, int instanceIndex)   *)
(***************************************************************************)
\* auto eventInstance = eventInstances[eventName];
playEventLookup(name) == MapIndex(eventInstances, name)

playEvent(name) ==
    /\ LET looked == playEventLookup(name)
       IN  /\ eventInstances' = looked
           /\ Record(Op("playEvent", 0, name, 0),
                     IF MapCount(looked, name) > 0
                     THEN << Call("start", looked[name], 0, 0) >>
                     ELSE <<>>)
    /\ UNCHANGED <<eventDescriptions, bInstances>>
    /\ UNCHANGED soundVars
    /\ UNCHANGED engineVars
    /\ UNCHANGED fileVars

(***************************************************************************)
(* void AudioEngine::stopEvent(const char* eventName, int instanceIndex)   *)
(***************************************************************************)
\* The guard of stopEvent's stopping branch.
stopEventGuard(name) == MapCount(eventInstances, name) > 0

stopEvent(name) ==
    /\ IF stopEventGuard(name)
       THEN LET indexed == MapIndex(eventInstances, name)
            IN  /\ eventInstances' = indexed
                /\ Record(Op("stopEvent", 0, name, 0),
                          << Call("stop", indexed[name], 1, 0) >>)
       ELSE /\ Record(Op("stopEvent", 0, name, 0), <<>>)
            /\ UNCHANGED eventInstances
    /\ UNCHANGED <<eventDescriptions, bInstances>>
    /\ UNCHANGED soundVars
    /\ UNCHANGED engineVars
    /\ UNCHANGED fileVars

(***************************************************************************)
(* unsigned int AudioEngine::getSoundLengthInMS(SoundInfo soundInfo)       *)
(***************************************************************************)
\* The length in milliseconds the backend reports for the file of an id.
FileLengthMS(id) == 100 * id

\* What getLength leaves in length (initialized to 0) when it is called through
\* a pointer that is not a backend sound.
WildLengths == {0, 1}

\* Mutant: the cache is indexed whatever it holds.
getSoundLengthGuard_always(d) == TRUE

\* if (sounds.count(soundInfo.getUniqueID()))
getSoundLengthGuard(d) == MapCount(sounds, getUniqueID(d)) > 0

getSoundLengthInMS(d) ==
    /\ IF getSoundLengthGuard(d)
       THEN \E ok \in BOOLEAN, wild \in WildLengths :
              LET id == getUniqueID(d)
                  indexed == MapIndex(sounds, id)
                  sound == indexed[id]
                  read == ok /\ bLive /\ ValidSound(sound)
                  length == IF ValidSound(sound)
                            THEN (IF read THEN FileLengthMS(SoundPath(sound)) ELSE 0)
                            ELSE wild
              IN  /\ sounds' = indexed
                  /\ returned' = length
                  /\ Record(Op("getSoundLengthInMS", d, 0, 0),
                            << Call("getLength", sound, length, Bit(read)) >>)
       ELSE /\ returned' = 0
            /\ Record(Op("getSoundLengthInMS", d, 0, 0), <<>>)
            /\ UNCHANGED sounds
    /\ UNCHANGED <<info, loopsPlaying, bSounds, bChannels>>
    /\ UNCHANGED eventVars
    /\ UNCHANGED <<soundBanks, muted, listener, bMute, bLive>>
    /\ UNCHANGED fileVars

(***************************************************************************)
(* void AudioEngine::init()                                                *)
(***************************************************************************)
init ==
    /\ \E ok \in BOOLEAN :
         /\ bLive' = (ok \/ bLive)
         \* a system just created has an un-muted master channel group
         /\ bMute' = IF ok THEN FALSE ELSE bMute
         /\ Record(Op("init", 0, 0, 0),
                   << Call("create", 0, Bit(ok), 0),
                      Call("getCoreSystem", 0, 0, 0),
                      Call("setSoftwareFormat", 0, 0, 0),
                      Call("set3DSettings", 0, 0, 0),
                      Call("initialize", 0, 0, 0),
                      Call("getMasterChannelGroup", 0, 0, 0),
                      Call("createReverb3D", 0, 0, 0),
                      Call("setProperties", 0, 0, 0),
                      Call("set3DAttributes", 0, 0, 0) >>)
    \* the maps and the mute flag are not touched
    /\ UNCHANGED <<sounds, loopsPlaying, soundBanks, eventDescriptions,
                   eventInstances, muted>>
    /\ UNCHANGED <<info, bSounds, bChannels, bInstances, listener, returned>>
    /\ UNCHANGED fileVars

(***************************************************************************)
(* void AudioEngine::deactivate()                                          *)
(***************************************************************************)
deactivate ==
    /\ bLive' = FALSE
    \* close and release end every channel and free every sound and instance
    /\ bSounds' = [h \in 1..Len(bSounds) |-> Released]
    /\ bChannels' = [h \in 1..Len(bChannels) |-> [bChannels[h] EXCEPT !.stopped = TRUE]]
    /\ bInstances' = [h \in 1..Len(bInstances) |-> Released]
    /\ Record(Op("deactivate", 0, 0, 0),
              << Call("close", 0, 0, 0), Call("release", 0, 0, 0) >>)
    /\ UNCHANGED <<info, sounds, loopsPlaying, eventDescriptions, eventInstances>>
    /\ UNCHANGED <<soundBanks, muted, listener, bMute, returned>>
    /\ UNCHANGED fileVars

(***************************************************************************)
(* void AudioEngine::loadFMODStudioBank(const char* filepath)              *)
(***************************************************************************)
loadFMODStudioBank(filepath) ==
    /\ \E ok \in BOOLEAN :
         LET \* the handle of a bank is its path; NULL when loadBankFile fails
             bank == IF ok /\ bLive THEN filepath ELSE NullH
         IN  /\ soundBanks' = MapInsert(soundBanks, filepath, bank)
             /\ Record(Op("loadFMODStudioBank", 0, filepath, 0),
                       << Call("loadBankFile", bank, filepath, 0) >>)
    /\ UNCHANGED soundVars
    /\ UNCHANGED eventVars
    /\ UNCHANGED <<muted, listener, bMute, bLive, returned>>
    /\ UNCHANGED fileVars

(***************************************************************************)
(* void AudioEngine::muteAllSounds(), unmuteAllSound(), bool isMuted()     *)
(***************************************************************************)
\* mastergroup->setMute(mute) on the backend, set telling whether it took effect.
BackendSetMute(mute, set) == IF set THEN mute ELSE bMute

\* muted = true; muted = false;
muteFlag(mute, set) == mute

muteAllSounds ==
    /\ \E ok \in BOOLEAN :
         LET set == ok /\ bLive
         IN  /\ bMute' = BackendSetMute(TRUE, set)
             /\ muted' = muteFlag(TRUE, set)
             /\ Record(Op("muteAllSounds", 0, 0, 0), << Call("setMute", 0, 1, Bit(set)) >>)
    /\ UNCHANGED soundVars
    /\ UNCHANGED eventVars
    /\ UNCHANGED <<soundBanks, listener, bLive, returned>>
    /\ UNCHANGED fileVars

unmuteAllSound ==
    /\ \E ok \in BOOLEAN :
         LET set == ok /\ bLive
         IN  /\ bMute' = BackendSetMute(FALSE, set)
             /\ muted' = muteFlag(FALSE, set)
             /\ Record(Op("unmuteAllSound", 0, 0, 0), << Call("setMute", 0, 0, Bit(set)) >>)
    /\ UNCHANGED soundVars
    /\ UNCHANGED eventVars
    /\ UNCHANGED <<soundBanks, listener, bLive, returned>>
    /\ UNCHANGED fileVars

isMuted == muted

(***************************************************************************)
(* void AudioEngine::set3DListenerPosition(float posX, float posY,         *)
(*     float posZ, float forwardX, float forwardY, float forwardZ,         *)
(*     float upX, float upY, float upZ)                                    *)
(***************************************************************************)
\* Vectors a caller passes, as <<x, y, z>>.
Vectors == {<<1, 2, 3>>, <<4, 5, 6>>}

\* listenerpos = { posX, posY, posZ };
storeListenerpos(pos) == pos
\* forward { forwardX, forwardY, forwardZ };  -- the statement has no
\* assignment operator: the member keeps its value.
storeForward(fwd) == listener.forward
\* up = { upX, upY, upZ };
storeUp(upv) == upv

set3DListenerPosition(pos, fwd, upv) ==
    /\ listener' = [listenerpos |-> storeListenerpos(pos),
                    forward |-> storeForward(fwd),
                    up |-> storeUp(upv)]
    \* set3DListenerAttributes(0, &listenerpos, 0, &forward, &up)
    /\ Record(Op("set3DListenerPosition", pos, fwd, upv),
              << Call("set3DListenerAttributes", listener'.listenerpos,
                      listener'.forward, listener'.up) >>)
    /\ UNCHANGED soundVars
    /\ UNCHANGED eventVars
    /\ UNCHANGED <<soundBanks, muted, bMute, bLive, returned>>
    /\ UNCHANGED fileVars

(***************************************************************************)
(* void AudioEngine::setFMODEventParamValue(const char* eventName,         *)
(*     const char* parameterName, float value)                             *)
(***************************************************************************)
\* Parameter names and values a caller passes.
ParamNames == {1}
ParamValues == {0, 1}

\* Mutant: the instance map is indexed whatever it holds.
setFMODEventParamValueGuard_always(name) == TRUE

\* if (eventInstances.count(eventName) > 0)
setFMODEventParamValueGuard(name) == MapCount(eventInstances, name) > 0

setFMODEventParamValue(name, parameterName, value) ==
    /\ IF setFMODEventParamValueGuard(name)
       THEN LET indexed == MapIndex(eventInstances, name)
            IN  /\ eventInstances' = indexed
                /\ Record(Op("setFMODEventParamValue", parameterName, name, value),
                          << Call("setParameterByName", indexed[name],
                                  parameterName, value) >>)
       ELSE /\ Record(Op("setFMODEventParamValue", parameterName, name, value), <<>>)
            /\ UNCHANGED eventInstances
    /\ UNCHANGED <<eventDescriptions, bInstances>>
    /\ UNCHANGED soundVars
    /\ UNCHANGED engineVars
    /\ UNCHANGED fileVars

(***************************************************************************)
(* The file-path API (the AudioEngine.cpp of AudioEngine.h): sounds are    *)
(* named by their file path; soundCache and channelMap are its maps.       *)
(***************************************************************************)
FilePaths == {1, 2}

\* The SoundInfo whose path and loop mode the sound of a load call has; the
\* backend records each sound by it.
FileDesc(filepath, loop) == IF loop THEN filepath ELSE filepath + 2

\* bool AudioEngine::soundIsCached(const char* filepath)
soundIsCached(filepath) == MapCount(soundCache, filepath) > 0

\* FMOD::Sound* AudioEngine::getSound(const char* filepath): the cache after
\* soundCache[filepath].
getSound(filepath) == MapIndex(soundCache, filepath)

\* void AudioEngine::loadSoundFile(const char* filepath, bool loop)
loadSoundFile(filepath, loop) ==
    /\ IF ~soundIsCached(filepath)
       THEN \E ok \in BOOLEAN, u \in Uninit :
              LET created == ok /\ bLive /\ Len(bSounds) < MaxSounds
                  sound == IF created THEN Len(bSounds) + 1 ELSE u
              IN  /\ bSounds' = IF created
                                THEN Append(bSounds, FileDesc(filepath, loop))
                                ELSE bSounds
                  /\ soundCache' = MapInsert(soundCache, filepath, sound)
                  /\ Record(Op("loadSoundFile", 0, filepath, Bit(loop)),
                            << Call("createSound", sound, filepath, 0),
                               Call("setMode", sound, Bit(loop), 0) >>)
       ELSE /\ Record(Op("loadSoundFile", 0, filepath, Bit(loop)), <<>>)
            /\ UNCHANGED <<bSounds, soundCache>>
    /\ UNCHANGED <<info, sounds, loopsPlaying, bChannels, channelMap>>
    /\ UNCHANGED eventVars
    /\ UNCHANGED engineVars

\* void AudioEngine::load3DSoundFile(const char* filepath, bool loop)
load3DSoundFile(filepath, loop) ==
    /\ IF ~soundIsCached(filepath)
       THEN \E ok \in BOOLEAN, u \in Uninit :
              LET created == ok /\ bLive /\ Len(bSounds) < MaxSounds
                  sound == IF created THEN Len(bSounds) + 1 ELSE u
              IN  /\ bSounds' = IF created
                                THEN Append(bSounds, FileDesc(filepath, loop))
                                ELSE bSounds
                  /\ soundCache' = MapInsert(soundCache, filepath, sound)
                  /\ Record(Op("load3DSoundFile", 0, filepath, Bit(loop)),
                            << Call("createSound", sound, filepath, 1),
                               Call("set3DMinMaxDistance", sound, 0, 0),
                               Call("setMode", sound, Bit(loop), 0) >>)
       ELSE /\ Record(Op("load3DSoundFile", 0, filepath, Bit(loop)), <<>>)
            /\ UNCHANGED <<bSounds, soundCache>>
    /\ UNCHANGED <<info, sounds, loopsPlaying, bChannels, channelMap>>
    /\ UNCHANGED eventVars
    /\ UNCHANGED engineVars

\* lowLevelSystem->playSound(getSound(filepath), ...) on the backend: whether
\* it starts a channel.
FileStarts(ok, sound) ==
    ok /\ bLive /\ ValidSound(sound) /\ Len(bChannels) < MaxChannels

\* void AudioEngine::playSoundFile(const char* filepath)
playSoundFile(filepath) ==
    /\ IF soundIsCached(filepath)
       THEN \E ok \in BOOLEAN, u \in Uninit :
              LET indexed == getSound(filepath)
                  sound == indexed[filepath]
                  started == FileStarts(ok, sound)
                  channel == IF started THEN Len(bChannels) + 1 ELSE u
              IN  /\ soundCache' = indexed
                  /\ bChannels' = IF started
                                  THEN Append(bChannels, [snd |-> sound, stopped |-> FALSE])
                                  ELSE bChannels
                  /\ Record(Op("playSoundFile", 0, filepath, 0),
                            << Call("playSound", channel, sound, 0) >>)
       ELSE /\ Record(Op("playSoundFile", 0, filepath, 0), <<>>)
            /\ UNCHANGED <<soundCache, bChannels>>
    /\ UNCHANGED channelMap
    /\ UNCHANGED <<info, sounds, loopsPlaying, bSounds>>
    /\ UNCHANGED eventVars
    /\ UNCHANGED engineVars

\* What play3DSoundFile does to channelMap once it holds the channel: it does
\* not touch the map.
play3DSoundFileRecord(filepath, channel) == channelMap

\* void AudioEngine::play3DSoundFile(const char* filepath, float x, float y, float z)
play3DSoundFile(filepath) ==
    /\ IF soundIsCached(filepath)
       THEN \E ok \in BOOLEAN, u \in Uninit :
              LET indexed == getSound(filepath)
                  sound == indexed[filepath]
                  started == FileStarts(ok, sound)
                  channel == IF started THEN Len(bChannels) + 1 ELSE u
              IN  /\ soundCache' = indexed
                  /\ bChannels' = IF started
                                  THEN Append(bChannels, [snd |-> sound, stopped |-> FALSE])
                                  ELSE bChannels
                  /\ channelMap' = play3DSoundFileRecord(filepath, channel)
                  /\ Record(Op("play3DSoundFile", 0, filepath, 0),
                            << Call("playSound", channel, sound, 1),
                               Call("set3DAttributes", channel, 0, 0),
                               Call("setPaused", channel, 0, 0) >>)
       ELSE /\ Record(Op("play3DSoundFile", 0, filepath, 0), <<>>)
            /\ UNCHANGED <<soundCache, bChannels, channelMap>>
    /\ UNCHANGED <<info, sounds, loopsPlaying, bSounds>>
    /\ UNCHANGED eventVars
    /\ UNCHANGED engineVars

\* void AudioEngine::update3DSoundPosition(const char* filepath, float x,
\*     float y, float z)
file_update3DSoundPosition(filepath) ==
    /\ IF MapCount(channelMap, filepath) > 0
       THEN LET indexed == MapIndex(channelMap, filepath)
            IN  /\ channelMap' = indexed
                /\ Record(Op("file_update3DSoundPosition", 0, filepath, 0),
                          << Call("set3DAttributes", indexed[filepath], 0, 0) >>)
       ELSE /\ Record(Op("file_update3DSoundPosition", 0, filepath, 0), <<>>)
            /\ UNCHANGED channelMap
    /\ UNCHANGED soundCache
    /\ UNCHANGED soundVars
    /\ UNCHANGED eventVars
    /\ UNCHANGED engineVars

(***************************************************************************)
(* void AudioEngine::set3DListenerPosition(float posX, ..., float upZ)     *)
(* of the file-path API                                                    *)
(***************************************************************************)
\* forward = { forwardY, forwardX, forwardZ };
file_storeForward(fwd) == <<fwd[2], fwd[1], fwd[3]>>
\* up = { upY, upX, upZ };
file_storeUp(upv) == <<upv[2], upv[1], upv[3]>>

file_set3DListenerPosition(pos, fwd, upv) ==
    /\ listener' = [listenerpos |-> storeListenerpos(pos),
                    forward |-> file_storeForward(fwd),
                    up |-> file_storeUp(upv)]
    \* set3DListenerAttributes(0, &listenerpos, 0, &forward, &up)
    /\ Record(Op("file_set3DListenerPosition", pos, fwd, upv),
              << Call("set3DListenerAttributes", listener'.listenerpos,
                      listener'.forward, listener'.up) >>)
    /\ UNCHANGED soundVars
    /\ UNCHANGED eventVars
    /\ UNCHANGED <<soundBanks, muted, bMute, bLive, returned>>
    /\ UNCHANGED fileVars

(***************************************************************************)
(* void AudioEngine::setEventVolume(const char* eventName,                 *)
(*     float volume0to1)                                                   *)
(***************************************************************************)
\* Mutant: the name is looked up among the playing loops.
setEventVolume_ofLoop(name, volume0to1) ==
    /\ LET indexed == MapIndex(loopsPlaying, name)
       IN  /\ loopsPlaying' = indexed
           /\ Record(Op("setEventVolume", 0, name, volume0to1),
                     << Call("setVolume", indexed[name], volume0to1, 0) >>)
    /\ UNCHANGED <<info, sounds, bSounds, bChannels>>
    /\ UNCHANGED eventVars
    /\ UNCHANGED engineVars
    /\ UNCHANGED fileVars

setEventVolume(name, volume0to1) ==
    /\ LET indexed == MapIndex(eventInstances, name)
       IN  /\ eventInstances' = indexed
           /\ Record(Op("setEventVolume", 0, name, volume0to1),
                     << Call("setVolume", indexed[name], volume0to1, 0) >>)
    /\ UNCHANGED <<eventDescriptions, bInstances>>
    /\ UNCHANGED soundVars
    /\ UNCHANGED engineVars
    /\ UNCHANGED fileVars

(***************************************************************************)
(* bool AudioEngine::eventIsPlaying(const char* eventName, int instance)   *)
(***************************************************************************)
eventIsPlaying(name) ==
    \* what getPlaybackState leaves in playbackState: the state of the backend's
    \* timeline for an instance, anything (the local is not initialized) for a
    \* pointer that is no instance
    /\ \E playing \in BOOLEAN :
         LET indexed == MapIndex(eventInstances, name)
         IN  /\ eventInstances' = indexed
             /\ returned' = Bit(playing)
             /\ Record(Op("eventIsPlaying", 0, name, 0),
                       << Call("getPlaybackState", indexed[name], Bit(playing), 0) >>)
    /\ UNCHANGED <<eventDescriptions, bInstances>>
    /\ UNCHANGED soundVars
    /\ UNCHANGED <<soundBanks, muted, listener, bMute, bLive>>
    /\ UNCHANGED fileVars

(***************************************************************************)
(* The sound operations and the event operations, and both together.       *)
(***************************************************************************)
NextSound ==
    \/ \E d \in Descs : loadSound(d)
    \/ \E d \in Descs : playSound(d)
    \/ \E d \in Descs : stopSound(d)
    \/ \E d \in Descs : update3DSoundPosition(d)
    \/ update

\* The SoundInfo objects of one id: a loop and a one-shot.
FadeDescs == {1, 3}

NextFade ==
    \/ \E d \in FadeDescs : loadSound(d)
    \/ \E d \in FadeDescs : playSound(d)
    \/ \E d \in FadeDescs : stopSound(d)
    \/ \E d \in FadeDescs, v \in Volumes, n \in Fades : updateSoundLoopVolume(d, v, n)
    \/ \E d \in FadeDescs : callSoundIsPlaying(d)

NextEvent ==
    \/ \E e \in EventNames, n \in 0..1 : loadFMODStudioEvent(e, n)
    \/ \E e \in EventNames : playEvent(e)
    \/ \E e \in EventNames : stopEvent(e)
    \/ \E e \in EventNames, n \in ParamNames, v \in ParamValues :
          setFMODEventParamValue(e, n, v)
    \/ \E e \in EventNames, v \in Volumes : setEventVolume(e, v)
    \/ \E e \in EventNames : eventIsPlaying(e)
    \/ update

\* Load, play, stop and position of sounds.
SpecSound == Init /\ [][NextSound]_vars

\* Load, play, stop, volume fades and the playing query of the sounds of one id.
SpecFade == Init /\ [][NextFade]_vars

\* The bank-driven events.
SpecEvent == Init /\ [][NextEvent]_vars

NextLength ==
    \/ \E d \in Descs : loadSound(d)
    \/ \E d \in Descs : playSound(d)
    \/ \E d \in Descs : getSoundLengthInMS(d)

\* Load and play of sounds, and the query of their length.
SpecLength == Init /\ [][NextLength]_vars

\* The sound, bank and event the engine's life cycle is exercised with.
EngineDescs == {1}
Banks == {1}
EngineEvents == {1}

NextEngine ==
    \/ init
    \/ deactivate
    \/ muteAllSounds
    \/ unmuteAllSound
    \/ \E d \in EngineDescs : loadSound(d)
    \/ \E d \in EngineDescs : playSound(d)
    \/ \E b \in Banks : loadFMODStudioBank(b)
    \/ \E e \in EngineEvents : loadFMODStudioEvent(e, 0)

\* init, deactivate and mute, around the loading operations.
SpecEngine == Init /\ [][NextEngine]_vars

\* The looping SoundInfo that plays when the engine is torn down.
TeardownDescs == {1}

NextTeardown ==
    \/ deactivate
    \/ \E d \in TeardownDescs : loadSound(d)
    \/ \E d \in TeardownDescs : playSound(d)
    \/ \E d \in TeardownDescs : stopSound(d)
    \/ \E d \in TeardownDescs : updateSoundLoopVolume(d, 0, 0)
    \/ \E d \in TeardownDescs : update3DSoundPosition(d)

\* deactivate() among the operations on a loop.
SpecTeardown == Init /\ [][NextTeardown]_vars

\* The looping 3D SoundInfo the listener moves around.
SpatialDescs == {2}

NextSpatial ==
    \/ \E pos \in Vectors, fwd \in Vectors, upv \in Vectors :
          set3DListenerPosition(pos, fwd, upv)
    \/ \E d \in SpatialDescs : loadSound(d)
    \/ \E d \in SpatialDescs : playSound(d)
    \/ \E d \in SpatialDescs : update3DSoundPosition(d)

\* The listener and a 3D sound.
SpecSpatial == Init /\ [][NextSpatial]_vars

NextFile ==
    \/ \E f \in FilePaths, loop \in BOOLEAN : loadSoundFile(f, loop)
    \/ \E f \in FilePaths, loop \in BOOLEAN : load3DSoundFile(f, loop)
    \/ \E f \in FilePaths : playSoundFile(f)
    \/ \E f \in FilePaths : play3DSoundFile(f)
    \/ \E f \in FilePaths : file_update3DSoundPosition(f)
    \/ \E pos \in Vectors, fwd \in Vectors, upv \in Vectors :
          file_set3DListenerPosition(pos, fwd, upv)

\* The file-path API.
SpecFile == Init /\ [][NextFile]_vars

\* A looping sound and an event named by the same string.
SharedDescs == {1}
SharedNames == {1}

NextShared ==
    \/ \E d \in SharedDescs : loadSound(d)
    \/ \E d \in SharedDescs : playSound(d)
    \/ \E d \in SharedDescs : stopSound(d)
    \/ \E d \in SharedDescs : updateSoundLoopVolume(d, 0, 0)
    \/ \E d \in SharedDescs : update3DSoundPosition(d)
    \/ \E e \in SharedNames : loadFMODStudioBank(e)
    \/ \E e \in SharedNames : loadFMODStudioEvent(e, 0)
    \/ \E e \in SharedNames, n \in ParamNames : setFMODEventParamValue(e, n, 0)
    \/ \E e \in SharedNames : playEvent(e)
    \/ \E e \in SharedNames : stopEvent(e)
    \/ \E e \in SharedNames : setEventVolume(e, 0)
    \/ \E e \in SharedNames : eventIsPlaying(e)

\* The sound operations and the event operations on one string.
SpecShared == Init /\ [][NextShared]_vars

\* One file, loaded by its one-shot SoundInfo and played by its looping one,
\* and an event.
FrameLoads == {3}
FramePlays == {1}
FrameNames == {1}
FrameVectors == {<<1, 2, 3>>}

NextFrame ==
    \/ update
    \/ \E d \in FrameLoads : loadSound(d)
    \/ \E d \in FramePlays : playSound(d)
    \/ \E e \in FrameNames : loadFMODStudioEvent(e, 0)
    \/ \E pos \in FrameVectors : set3DListenerPosition(pos, pos, pos)
    \/ muteAllSounds

\* update() between operations that change each part of the facade's state.
SpecFrame == Init /\ [][NextFrame]_vars

(***************************************************************************)
(* Properties.  The operation a state follows is lastOp; Desc and Id are   *)
(* its SoundInfo and that object's id, Name its event name.                *)
(***************************************************************************)
Ran(name) == lastOp.op = name
Desc == lastOp.d
Id == getUniqueID(lastOp.d)
Name == lastOp.x

\* The id had an ActiveLoop before the operation.
HadLoop == Id \in DOMAIN pre.loopsPlaying
\* The id's sound was in the cache before the operation, created by loadSound.
WasLoaded == Id \in DOMAIN pre.sounds /\ ValidSound(pre.sounds[Id])
\* soundIsPlaying(Desc) as it was before the operation.
WasPlaying == isLoop(Desc) /\ HadLoop

\* C1: after playSound of a looping descriptor whose sound loadSound loaded,
\* soundIsPlaying is true; after stopSound of a descriptor it is false.
C1_PlayingAfterPlayNotAfterStop ==
    /\ (Ran("playSound") /\ isLoop(Desc) /\ WasLoaded) => soundIsPlaying(Desc)
    /\ Ran("stopSound") => ~soundIsPlaying(Desc)

\* A loop that played on a backend channel has just been stopped.
C1_Witness ==
    /\ Ran("stopSound") /\ WasPlaying
    /\ ValidChannel(pre.loopsPlaying[Id])
    /\ bChannels[pre.loopsPlaying[Id]].stopped

\* Un-stopped backend channels playing a looping sound of the id.
LiveLoopChannels(id) ==
    {c \in 1..Len(bChannels) :
        /\ ~bChannels[c].stopped
        /\ SoundPath(bChannels[c].snd) = id
        /\ SoundLoops(bChannels[c].snd)}

\* C2: playSound on a loaded looping id that already has an ActiveLoop on a
\* backend channel starts no backend channel and leaves the ActiveLoop as it
\* was; so no looping id ever has two un-stopped backend channels.
C2_AlreadyPlayingRejected ==
    /\ (Ran("playSound") /\ isLoop(Desc) /\ WasLoaded
           /\ HadLoop /\ ValidChannel(pre.loopsPlaying[Id])) =>
          /\ \A i \in CallsNamed("playSound") : ~ValidChannel(calls[i].h)
          /\ loopsPlaying = pre.loopsPlaying
    /\ \A id \in Ids : Cardinality(LiveLoopChannels(id)) <= 1

\* C3: playSound on an id that was never loaded makes no backend play call
\* and leaves loopsPlaying as it was.
C3_PlayUnloadedRejected ==
    (Ran("playSound") /\ Id \notin DOMAIN pre.sounds) =>
        /\ CallsNamed("playSound") = {}
        /\ loopsPlaying = pre.loopsPlaying

\* C4: loadSound of an id whose sound is already in the cache makes no
\* createSound call and leaves the cache as it was; so no id ever has two
\* backend sound resources.
C4_SecondLoadNoOp ==
    /\ (Ran("loadSound") /\ WasLoaded) =>
          /\ CallsNamed("createSound") = {}
          /\ sounds = pre.sounds
    /\ \A id \in Ids :
          Cardinality({h \in 1..Len(bSounds) : SoundPath(h) = id}) <= 1

\* C5: playEvent and stopEvent of a name absent from eventInstances make no
\* backend call and leave eventInstances as it was.
C5_AbsentEventNoOp ==
    (/\ Ran("playEvent") \/ Ran("stopEvent")
     /\ Name \notin DOMAIN pre.eventInstances) =>
        /\ calls = <<>>
        /\ eventInstances = pre.eventInstances

\* The channel the playing loop was on before the operation.
LoopChannel == pre.loopsPlaying[Id]
NewVolume == lastOp.x
FadeSampleLength == lastOp.y
OldVolume == pre.info[Desc].volume

C7_FadeEnvelope ==
    (Ran("updateSoundLoopVolume") /\ WasPlaying /\ FadeSampleLength > 64) =>
        LET points == CallsNamed("addFadePoint")
            first == CHOOSE j \in points : \A k \in points : j <= k
            second == CHOOSE k \in points : \A j \in points : j <= k
        IN  /\ points # {}
            /\ calls[first].b = OldVolume
            /\ calls[second].b = IF NewVolume > OldVolume THEN 2 ELSE NewVolume
            /\ IF NewVolume > OldVolume
               THEN \E i \in CallsNamed("setVolume") :
                       /\ i < first
                       /\ calls[i] = Call("setVolume", LoopChannel, NewVolume, 0)
               ELSE CallsNamed("setVolume") = {}
            /\ (NewVolume = 0 /\ FadeSampleLength = 128 /\ OldVolume > 0) =>
                   /\ calls[second].b = 0
                   /\ calls[second].a = calls[first].a + 128

\* An upward ramp on a loop playing on a backend channel, at a nonzero clock.
C7_Witness ==
    /\ Ran("updateSoundLoopVolume") /\ WasPlaying
    /\ FadeSampleLength > 64
    /\ NewVolume > OldVolume
    /\ ValidChannel(LoopChannel)
    /\ \E i \in CallsNamed("getDSPClock") : calls[i].a > 0

\* C8: updateSoundLoopVolume on a descriptor that is not playing makes no
\* backend call and leaves the stored volume, loopsPlaying and the cache as
\* they were.
C8_FadeNotPlaying ==
    (Ran("updateSoundLoopVolume") /\ ~WasPlaying) =>
        /\ calls = <<>>
        /\ info = pre.info
        /\ loopsPlaying = pre.loopsPlaying
        /\ sounds = pre.sounds

\* A fade was asked of a one-shot descriptor whose id has an ActiveLoop.
C8_Witness ==
    /\ Ran("updateSoundLoopVolume")
    /\ ~isLoop(Desc) /\ HadLoop

\* C9: playSound of a one-shot descriptor adds nothing to loopsPlaying, and
\* soundIsPlaying is false of every one-shot descriptor.
C9_OneShotNeverPlaying ==
    /\ (Ran("playSound") /\ ~isLoop(Desc)) => loopsPlaying = pre.loopsPlaying
    /\ \A d \in Descs : ~isLoop(d) => ~soundIsPlaying(d)

\* A one-shot descriptor was played on a backend channel.
C9_Witness ==
    /\ Ran("playSound") /\ ~isLoop(Desc)
    /\ \E i \in CallsNamed("playSound") : ValidChannel(calls[i].h)

\* C10: stopSound on an id without an ActiveLoop makes no backend call and
\* leaves loopsPlaying and the cache as they were.
C10_StopNotPlaying ==
    (Ran("stopSound") /\ ~HadLoop) =>
        /\ calls = <<>>
        /\ loopsPlaying = pre.loopsPlaying
        /\ sounds = pre.sounds

\* stopSound was called for a loaded looping id that has no ActiveLoop.
C10_Witness ==
    /\ Ran("stopSound") /\ ~HadLoop
    /\ isLoop(Desc) /\ WasLoaded

\* C11: a loadSound whose createSound failed leaves the cache as it was and
\* the caller's descriptor not loaded.
C11_CreateFailureLeavesCache ==
    (/\ Ran("loadSound")
     /\ \E i \in CallsNamed("createSound") : ~ValidSound(calls[i].h)) =>
        /\ sounds = pre.sounds
        /\ ~info[Desc].loaded

\* The id's sound is in the cache, created by the backend.
Cached(id) == id \in DOMAIN sounds /\ ValidSound(sounds[id])

\* C12: after a loadSound whose createSound succeeded the caller's descriptor
\* is loaded, and in every state a descriptor is loaded exactly when the cache
\* holds a backend resource for its id.
C12_LoadedIffCached ==
    /\ (/\ Ran("loadSound")
        /\ \E i \in CallsNamed("createSound") : ValidSound(calls[i].h)) =>
           info[Desc].loaded
    /\ \A d \in Descs : info[d].loaded <=> Cached(getUniqueID(d))

\* C13: getSoundLengthInMS of an id that is not in the cache returns 0, makes
\* no backend call and leaves the cache as it was; of an id that is in the
\* cache it asks the backend for the length of the cached sound, once, and
\* returns what the backend reported: the length of the id's file when the
\* cached sound is the backend's and the call succeeded.
C13_LengthOnlyOfCached ==
    Ran("getSoundLengthInMS") =>
        /\ sounds = pre.sounds
        /\ IF Id \notin DOMAIN pre.sounds
           THEN returned = 0 /\ calls = <<>>
           ELSE /\ Len(calls) = 1
                /\ calls[1].fn = "getLength"
                /\ calls[1].h = pre.sounds[Id]
                /\ returned = calls[1].a
                /\ (ValidSound(calls[1].h) /\ calls[1].b = 1) =>
                       returned = FileLengthMS(Id)

\* The length was asked of an id that is not in the cache while the other id's
\* sound is.
C13_Witness ==
    /\ Ran("getSoundLengthInMS")
    /\ Id \notin DOMAIN pre.sounds
    /\ \E id \in Ids : Cached(id)

\* The backend reported the length of a cached sound.
C13_WitnessCached ==
    /\ Ran("getSoundLengthInMS")
    /\ WasLoaded
    /\ returned = FileLengthMS(Id)

\* C14: in every state isMuted() is the mute state of the backend's master
\* channel group.
C14_MuteLockStep == isMuted = bMute

\* C18: after init() the sound cache, loopsPlaying, the bank map and the event
\* maps are empty and the mute flag is false.
C18_InitEmptiesCaches ==
    Ran("init") =>
        /\ sounds = EmptyMap
        /\ loopsPlaying = EmptyMap
        /\ soundBanks = EmptyMap
        /\ eventDescriptions = EmptyMap
        /\ eventInstances = EmptyMap
        /\ ~muted

\* C15: after set3DListenerPosition(p, f, u) the stored listener position,
\* forward and up vectors are p, f and u, and these three are the vectors of
\* the one set3DListenerAttributes call it made.
C15_ListenerStoredVerbatim ==
    Ran("set3DListenerPosition") =>
        /\ listener = [listenerpos |-> lastOp.d, forward |-> lastOp.x, up |-> lastOp.y]
        /\ calls = << Call("set3DListenerAttributes", lastOp.d, lastOp.x, lastOp.y) >>

\* C16: a loadFMODStudioEvent of a name whose instance is already stored,
\* when its createInstance succeeded, leaves the new instance stored under the
\* name.
C16_SecondLoadOverwrites ==
    (/\ Ran("loadFMODStudioEvent")
     /\ Name \in DOMAIN pre.eventInstances
     /\ ValidInstance(pre.eventInstances[Name])) =>
        \A i \in CallsNamed("createInstance") :
            ValidInstance(calls[i].h) => eventInstances[Name] = calls[i].h

\* C17: after update() no looping id is recorded in loopsPlaying on a channel
\* the backend has ended, and soundIsPlaying is false of every looping
\* descriptor whose recorded channel has ended.
C17_EndedLoopRemoved ==
    Ran("update") =>
        \A d \in Descs :
            LET id == getUniqueID(d)
            IN  (/\ isLoop(d)
                 /\ id \in DOMAIN pre.loopsPlaying
                 /\ ValidChannel(pre.loopsPlaying[id])
                 /\ bChannels[pre.loopsPlaying[id]].stopped) =>
                    /\ id \notin DOMAIN loopsPlaying
                    /\ ~soundIsPlaying(d)

\* C19: setFMODEventParamValue of a name absent from eventInstances makes no
\* backend call; of a name present it makes one setParameterByName call, on
\* the stored instance with the parameter and value passed; in both cases the
\* event maps stay as they were.
C19_ParamOnlyOfPresent ==
    Ran("setFMODEventParamValue") =>
        /\ eventInstances = pre.eventInstances
        /\ eventDescriptions = pre.eventDescriptions
        /\ IF Name \in DOMAIN pre.eventInstances
           THEN calls = << Call("setParameterByName", pre.eventInstances[Name],
                                lastOp.d, lastOp.y) >>
           ELSE calls = <<>>

\* A parameter was set on a name that is absent while the other name's
\* instance is stored.
C19_Witness ==
    /\ Ran("setFMODEventParamValue")
    /\ Name \notin DOMAIN pre.eventInstances
    /\ \E e \in DOMAIN eventInstances : ValidInstance(eventInstances[e])

\* C20: update3DSoundPosition makes one set3DAttributes call, on the channel
\* recorded for the id, when the descriptor is playing and 3D; it makes no
\* backend call otherwise; in both cases loopsPlaying and the cache stay as
\* they were.
C20_PositionOnlyOf3DPlaying ==
    Ran("update3DSoundPosition") =>
        /\ loopsPlaying = pre.loopsPlaying
        /\ sounds = pre.sounds
        /\ IF WasPlaying /\ is3D(Desc)
           THEN calls = << Call("set3DAttributes", LoopChannel, 0, 0) >>
           ELSE calls = <<>>

\* C21: after updateSoundLoopVolume on a playing descriptor, in either branch,
\* the volume the caller's descriptor stores is newVolume and nothing else of
\* the descriptors changed; no other operation changes a stored volume; so the
\* first fade point of a ramp carries the newVolume of the previous such call.
C21_StoredVolumeFollows ==
    /\ (Ran("updateSoundLoopVolume") /\ WasPlaying) =>
          /\ info = [pre.info EXCEPT ![Desc].volume = NewVolume]
          /\ \A i \in CallsNamed("addFadePoint") :
                (\A j \in CallsNamed("addFadePoint") : i <= j) =>
                    calls[i].b = pre.info[Desc].volume
    /\ ~(Ran("updateSoundLoopVolume") /\ WasPlaying) =>
          \A d \in Descs : info[d].volume = pre.info[d].volume

\* A ramp on a playing loop started from the volume an earlier call had stored.
C21_Witness ==
    /\ Ran("updateSoundLoopVolume") /\ WasPlaying
    /\ FadeSampleLength > 64
    /\ OldVolume # InitVolume
    /\ NewVolume # OldVolume
    /\ ValidChannel(LoopChannel)

\* C22: after play3DSoundFile of a path whose cached sound loops started a
\* backend channel, the channel is recorded in channelMap under the path; and
\* update3DSoundPosition of a path sets the 3D attributes of every un-stopped
\* backend channel that plays the path's cached sound.
C22_FileChannelRecorded ==
    /\ Ran("play3DSoundFile") =>
          \A i \in CallsNamed("playSound") :
              (ValidChannel(calls[i].h) /\ SoundLoops(calls[i].a)) =>
                  /\ Name \in DOMAIN channelMap
                  /\ channelMap[Name] = calls[i].h
    /\ Ran("file_update3DSoundPosition") =>
          \A c \in 1..Len(bChannels) :
              (/\ ~bChannels[c].stopped
               /\ Name \in DOMAIN soundCache
               /\ bChannels[c].snd = soundCache[Name]) =>
                  \E i \in CallsNamed("set3DAttributes") : calls[i].h = c

\* C23: the backend calls of a playSound are, in this order: playSound with
\* paused = true; set3DAttributes exactly when the descriptor is 3D; setVolume
\* with the descriptor's volume; setReverbProperties; and last of all
\* setPaused(false); all on the channel the first call produced.
C23_ConfigureBeforeUnpause ==
    (Ran("playSound") /\ calls # <<>>) =>
        LET n == Len(calls)
            channel == calls[1].h
        IN  /\ calls[1].fn = "playSound" /\ calls[1].b = 1
            /\ CallsNamed("playSound") = {1}
            /\ calls[n] = Call("setPaused", channel, 0, 0)
            /\ CallsNamed("setPaused") = {n}
            /\ \E v \in CallsNamed("setVolume") :
                  calls[v] = Call("setVolume", channel, pre.info[Desc].volume, 0)
            /\ \E r \in CallsNamed("setReverbProperties") : calls[r].h = channel
            /\ is3D(Desc) <=> (\E a \in CallsNamed("set3DAttributes") : calls[a].h = channel)
            /\ \A i \in 2..(n - 1) :
                  /\ calls[i].fn \in {"set3DAttributes", "setVolume", "setReverbProperties"}
                  /\ calls[i].h = channel

\* A 3D descriptor was played on a backend channel.
C23_Witness ==
    /\ Ran("playSound") /\ is3D(Desc)
    /\ calls # <<>>
    /\ ValidChannel(calls[1].h)

\* C24: every id recorded in loopsPlaying has a sound in the cache that a
\* successful createSound returned, and no entry of the cache holds a null
\* handle.
C24_PlayingOnlyFromLoaded ==
    /\ \A id \in DOMAIN loopsPlaying : Cached(id)
    /\ \A id \in DOMAIN sounds : sounds[id] # NullH

\* C25: stopSound of a playing loop makes one backend call, stop on the
\* channel recorded for the id, removes the id's entry from loopsPlaying and
\* leaves the entries of the other ids, the cache and the descriptors as they
\* were.
C25_StopFrame ==
    (Ran("stopSound") /\ WasPlaying) =>
        /\ calls = << Call("stop", LoopChannel, 0, 0) >>
        /\ Id \notin DOMAIN loopsPlaying
        /\ DOMAIN loopsPlaying = DOMAIN pre.loopsPlaying \ {Id}
        /\ \A id \in DOMAIN loopsPlaying : loopsPlaying[id] = pre.loopsPlaying[id]
        /\ sounds = pre.sounds
        /\ info = pre.info

\* A loop on a backend channel was stopped while the other id's loop plays on.
C25_Witness ==
    /\ Ran("stopSound") /\ WasPlaying
    /\ ValidChannel(LoopChannel)
    /\ \E id \in DOMAIN loopsPlaying : ValidChannel(loopsPlaying[id])

\* C27: the entries the cache had before an operation are in it afterwards
\* with the same handles, and only loadSound adds an entry.
C27_NoEviction ==
    /\ \A id \in DOMAIN pre.sounds :
          id \in DOMAIN sounds /\ sounds[id] = pre.sounds[id]
    /\ DOMAIN sounds # DOMAIN pre.sounds => Ran("loadSound")

\* C28: soundIsPlaying returns true exactly when the descriptor loops and its
\* id has an entry in loopsPlaying, and the call changes neither loopsPlaying
\* nor the cache and makes no backend call.
C28_PlayingIffLoopRecorded ==
    Ran("soundIsPlaying") =>
        /\ returned = Bit(isLoop(Desc) /\ Id \in DOMAIN pre.loopsPlaying)
        /\ loopsPlaying = pre.loopsPlaying
        /\ sounds = pre.sounds
        /\ calls = <<>>

\* The query was made of a one-shot descriptor whose id has an entry.
C28_Witness ==
    /\ Ran("soundIsPlaying")
    /\ ~isLoop(Desc) /\ HadLoop
    /\ returned = 0

\* The query was made of a looping descriptor playing on a backend channel.
C28_WitnessPlaying ==
    /\ Ran("soundIsPlaying")
    /\ WasPlaying /\ ValidChannel(LoopChannel)
    /\ returned = 1

\* C26: a playSound of a loaded looping descriptor whose backend playSound
\* did not start a channel makes no further backend call, adds no entry to
\* loopsPlaying and leaves soundIsPlaying as it was.
C26_FailedPlayNoEffect ==
    (/\ Ran("playSound") /\ isLoop(Desc) /\ WasLoaded /\ ~HadLoop
     /\ \A i \in CallsNamed("playSound") : ~ValidChannel(calls[i].h)) =>
        /\ Len(calls) <= 1
        /\ loopsPlaying = pre.loopsPlaying
        /\ ~soundIsPlaying(Desc)

SoundOps == {"loadSound", "playSound", "stopSound", "updateSoundLoopVolume",
             "update3DSoundPosition"}
EventOps == {"loadFMODStudioBank", "loadFMODStudioEvent", "setFMODEventParamValue",
             "playEvent", "stopEvent", "setEventVolume", "eventIsPlaying"}

\* C29: the bank and event operations leave the sound cache and loopsPlaying
\* as they were, and the sound operations leave the bank map and the two event
\* maps as they were, the sound id and the event name being one string.
C29_IndependentNamespaces ==
    /\ lastOp.op \in EventOps =>
          /\ sounds = pre.sounds
          /\ loopsPlaying = pre.loopsPlaying
    /\ lastOp.op \in SoundOps =>
          /\ soundBanks = pre.soundBanks
          /\ eventDescriptions = pre.eventDescriptions
          /\ eventInstances = pre.eventInstances

\* An event operation ran on the name of a loop that plays on a backend
\* channel, the event's instance being stored.
C29_Witness ==
    /\ lastOp.op \in {"setEventVolume", "stopEvent", "playEvent"}
    /\ Name \in DOMAIN loopsPlaying /\ ValidChannel(loopsPlaying[Name])
    /\ Name \in DOMAIN eventInstances /\ ValidInstance(eventInstances[Name])

\* C30: update() makes the one backend update call and leaves the sound
\* cache, loopsPlaying, the bank and event maps, the descriptors, the listener
\* vectors and the mute flag as they were.
C30_UpdateFrame ==
    Ran("update") =>
        /\ calls = << Call("update", 0, 0, 0) >>
        /\ sounds = pre.sounds
        /\ loopsPlaying = pre.loopsPlaying
        /\ soundBanks = pre.soundBanks
        /\ eventDescriptions = pre.eventDescriptions
        /\ eventInstances = pre.eventInstances
        /\ info = pre.info
        /\ listener = pre.listener
        /\ muted = pre.muted

\* update() ran while the engine was muted, the listener moved, an event
\* loaded and the channel recorded for a loop ended in the backend.
C30_Witness ==
    /\ Ran("update")
    /\ muted
    /\ listener # InitListener
    /\ eventInstances # EmptyMap
    /\ \E id \in DOMAIN loopsPlaying :
          ValidChannel(loopsPlaying[id]) /\ bChannels[loopsPlaying[id]].stopped

(***************************************************************************)
(* ERRCHECK: which backend calls of an operation have their FMOD_RESULT    *)
(* handed to ERRCHECK_fn, which prints "FMOD ERROR" for a code other than  *)
(* FMOD_OK.                                                                *)
(***************************************************************************)
\* The statements that drop the result: channel->setVolume(...) in playSound,
\* lowLevelSystem->close() and studioSystem->release() in deactivate.
Unchecked == { <<"playSound", "setVolume">>,
               <<"deactivate", "close">>,
               <<"deactivate", "release">> }

ERRCHECKed(op, fn) == <<op, fn>> \notin Unchecked

\* The methods of FMOD::Channel the sound operations call.
ChannelFns == {"set3DAttributes", "setVolume", "setReverbProperties", "setPaused",
               "stop", "getDSPClock", "addFadePoint"}

\* A call of a sound operation that cannot have returned FMOD_OK: a channel
\* method on a pointer that is no channel of the backend.
CallFails(c) == c.fn \in ChannelFns /\ ~ValidChannel(c.h)

\* C31: every backend call of a sound operation that fails has its result
\* handed to ERRCHECK, so the failure is reported.
C31_NoSilentFailure ==
    lastOp.op \in SoundOps =>
        \A i \in 1..Len(calls) :
            CallFails(calls[i]) => ERRCHECKed(lastOp.op, calls[i].fn)

\* C32: the event-instance map and the event-description map have the same
\* keys and no stored instance is null, whatever event operations ran on
\* present or absent names.
C32_EventMapsAligned ==
    /\ DOMAIN eventInstances = DOMAIN eventDescriptions
    /\ \A name \in DOMAIN eventInstances : eventInstances[name] # NullH

\* loopsPlaying after stopSound(d) ran on the registry reg.
StopOutcome(d, reg) ==
    IF isLoop(d) /\ MapCount(reg, getUniqueID(d)) > 0
    THEN [id \in DOMAIN reg \ {getUniqueID(d)} |-> reg[id]]
    ELSE reg

\* The descriptors that name the same sound as the one the operation got.
SameId == {d \in Descs : getUniqueID(d) = Id}

\* C33: soundIsPlaying gives the answer, and stopSound leaves the registry,
\* that any descriptor of the same id would have got on the same registry,
\* whatever its loop flag.
C33_OnlyIdMatters ==
    /\ Ran("soundIsPlaying") =>
          \A d \in SameId : returned = Bit(isLoop(d) /\ Id \in DOMAIN pre.loopsPlaying)
    /\ Ran("stopSound") =>
          \A d \in SameId : loopsPlaying = StopOutcome(d, pre.loopsPlaying)

\* The operations that reach a channel through loopsPlaying.
LoopOps == {"stopSound", "updateSoundLoopVolume", "update3DSoundPosition"}

\* C34: deactivate() leaves loopsPlaying empty, so that soundIsPlaying is
\* false for every descriptor, and while the engine is torn down stopSound,
\* updateSoundLoopVolume and update3DSoundPosition make no backend call on a
\* channel.
C34_NoStaleHandles ==
    /\ Ran("deactivate") =>
          /\ loopsPlaying = EmptyMap
          /\ \A d \in Descs : ~soundIsPlaying(d)
    /\ (~bLive /\ lastOp.op \in LoopOps) =>
          \A i \in 1..Len(calls) : ~ValidChannel(calls[i].h)

\* C35: after the file-path API's set3DListenerPosition(p, f, u) the stored
\* forward vector is f and the stored up vector is u, component by component,
\* and these are the vectors of the set3DListenerAttributes call it made.
C35_FileListenerStoredVerbatim ==
    Ran("file_set3DListenerPosition") =>
        /\ listener.forward = lastOp.x
        /\ listener.up = lastOp.y
        /\ calls = << Call("set3DListenerAttributes", lastOp.d, lastOp.x, lastOp.y) >>

====
